---- MODULE Spec2Model ----
(***************************************************************************)
(* A model of zhuww/arxiv_news_app: the GUI application                    *)
(* (src/arxiv_news_app.py) and the command-line collector                  *)
(* (src/arxiv_collector.py).                                               *)
(*                                                                         *)
(* Eleven specifications share this module:                                *)
(*   SpecTranslate  the Translator classes of both files and save_config   *)
(*   SpecSearch     the filtering loop of search_papers                    *)
(*   Spec           the playback session of the GUI                        *)
(*   SpecStartup    the startup thread and the pregeneration of the GUI    *)
(*   SpecSessions   play_latest_papers pressed again over one list         *)
(*   SpecReminder   the reminder thread of the GUI                         *)
(*   SpecCollector  the periodic driver of the collector                   *)
(*   SpecQuery      build_query and build_categories                       *)
(*   SpecSummary    the cleanup of titles and abstracts                    *)
(*   SpecOrder      the order of process_papers and of the worker          *)
(*   SpecIndex      play_next_paper beside the searches of the reminder    *)
(***************************************************************************)
EXTENDS Integers, Sequences, FiniteSets, TLC

VARIABLES
    \* ---- Translator (both files) and the translation part of CONFIG
    cfg,              \* CONFIG["translation"]: type and whether each key pair is filled
    translator_type,  \* Translator.translator_type of the GUI's global translator
    google_translator,\* Translator.google_translator: TRUE once an instance is cached
    call,             \* the last translate call: inputs, backends attempted, outcome
    \* ---- search_papers
    srch,             \* the state of one run of the filtering loop
    \* ---- ArxivNewsApp
    current_papers,       \* self.current_papers: [id, len]; paper p of list id is <<id, p>>
    nextList,             \* the id the next search result gets
    current_paper_index,  \* self.current_paper_index
    is_playing,           \* self.is_playing
    pregenerated_speech,  \* self.pregenerated_speech: list position -> file
    speech_generating,    \* self.speech_generating: the positions whose flag is True
    disk,                 \* the temporary audio files that exist (see TempFile)
    auto,                 \* the thread auto_search_and_pregenerate
    workers,              \* the pregenerate_speech threads, one per play_latest_papers
    plays,                \* one entry per open_play_window: window, waits, speech_thread
    searching,            \* search_thread threads of check_new_papers still running
    closed,               \* on_close has run
    status_label,         \* the text of self.status_label in the main window
    limit,                \* how far the run in hand is explored (see the bounds)
    \* ---- reminder_loop
    clock,                \* datetime.now(): the day (day % 7 = 0 is a Monday) and the hour
    reminder_enabled,     \* self.reminder_enabled, the checkbox of the main window
    skip_today,           \* self.skip_today
    last_reminder,        \* the content of last_reminder.txt: a <<day, hour>> or NoStamp
    reminder,             \* the reminder thread and the reminder window it asks for
    triggered,            \* the <<day, hour>> at which a reminder search was triggered
    polled,               \* reminder_loop has run an iteration in the current hour
    \* ---- the collector's main
    driver,               \* the periodic driver: its position and what it has met
    speech,               \* the last call of the collector's text_to_speech
    log,                  \* the steps process_papers has completed in this iteration
    \* ---- build_query, build_categories and the summary cleanup
    qb,                   \* one run of build_query and build_categories
    sb,                   \* one run of the cleanup of a title or abstract
    \* ---- the GUI thread inside play_next_paper
    gui                   \* "tested" between the test of line 1051 and the indexing of 1056

tvars == <<cfg, translator_type, google_translator, call>>
svars == <<srch>>
avars == <<current_papers, nextList, current_paper_index, is_playing, pregenerated_speech,
           speech_generating, disk, auto, workers, plays, searching, closed, status_label, limit>>
rvars == <<clock, reminder_enabled, skip_today, last_reminder, reminder, triggered, polled>>
dvars == <<driver, speech, log>>
bvars == <<qb, sb>>
gvars == <<gui>>
xvars == <<rvars, dvars, bvars, gvars>>
vars == <<cfg, translator_type, google_translator, call, srch,
          current_papers, nextList, current_paper_index, is_playing, pregenerated_speech,
          speech_generating, disk, auto, workers, plays, searching, closed, status_label, limit,
          clock, reminder_enabled, skip_today, last_reminder, reminder, triggered, polled,
          driver, speech, log, qb, sb, gui>>

(***************************************************************************)
(* Bounds of the model.                                                    *)
(***************************************************************************)
MaxRaw == 4       \* raw results the index client delivers in one search
MaxCap == 2       \* largest value of CONFIG["max_results"] that is explored
MaxPapers == 2    \* longest paper list a search installs
MaxLists == 2     \* search results installed in one run
MaxSessions == 1  \* calls of play_latest_papers in one run
MaxPlays == 3     \* calls of open_play_window in one run
\* The same for the runs in which play_latest_papers is pressed again.
SessionPapers == 3
RepeatedSessions == 2
SessionPlays == 4
\* The days the reminder thread is followed over: FirstDay is a Friday.
FirstDay == 4
MaxDays == 2
\* The collector's main: papers of one search, iterations and exceptions of one run.
MaxFound == 2
MaxRuns == 3
MaxErrors == 2
\* build_query and build_categories: the lists and the keywords that are explored.
MaxKeywords == 3
MaxKeywordLen == 2
MaxFields == 3
\* The longest text the cleanup is applied to, in tokens.
MaxText == 4

Limit(np, nl, ns, nw) ==
    [papers |-> np, lists |-> nl, sessions |-> ns, plays |-> nw]

(***************************************************************************)
(* Translator.                                                             *)
(* A text is <<"orig", t>>; the translation of t by backend b is <<b, t>>. *)
(* A backend that answers with the text it was given returns               *)
(* <<"orig", t>> again.  A function result is [raised, value].             *)
(***************************************************************************)
Range(s) == {s[i] : i \in DOMAIN s}

Texts == {"t1"}
Backends == {"google", "baidu", "doubao"}
Text(t) == <<"orig", t>>
Translation(b, t) == <<b, t>>
Strings == {Text(t) : t \in Texts} \cup {Translation(b, t) : b \in Backends, t \in Texts}

Return(v) == [raised |-> FALSE, value |-> v]
Raise == [raised |-> TRUE, value |-> <<"exc", "exc">>]

\* What the remote service (or the library) does in one request.
\*   ok         a translation comes back
\*   same       the answer is the text that was sent
\*   malformed  the response lacks the expected key
\*   exception  the request, the import or the decoding raises
Outcomes == {"ok", "same", "malformed", "exception"}

\* src/arxiv_news_app.py:74-121.  creds: both app_id and app_key are non-empty.
translate_with_baidu(text, creds, outcome) ==
    LET body == IF ~creds THEN Return(Text(text))
                ELSE CASE outcome = "ok" -> Return(Translation("baidu", text))
                       [] outcome = "same" -> Return(Text(text))
                       [] outcome = "malformed" -> Return(Text(text))
                       [] OTHER -> Raise
    IN  IF body.raised THEN Return(Text(text)) ELSE body

\* src/arxiv_news_app.py:123-179.
translate_with_doubao(text, creds, outcome) ==
    LET body == IF ~creds THEN Return(Text(text))
                ELSE CASE outcome = "ok" -> Return(Translation("doubao", text))
                       [] outcome = "same" -> Return(Text(text))
                       [] outcome = "malformed" -> Return(Text(text))
                       [] OTHER -> Raise
    IN  IF body.raised THEN Return(Text(text)) ELSE body

\* src/arxiv_news_app.py:62-72: the cached instance, or a new one when the
\* import and the constructor succeed (ginit), else None.
get_google_translator(cached, ginit) == cached \/ ginit

\* translator.translate(...) of googletrans followed by result.text.
GoogleCall(text, outcome) ==
    CASE outcome = "ok" -> Return(Translation("google", text))
      [] outcome = "same" -> Return(Text(text))
      [] OTHER -> Raise

\* The body of the try block of Translator.translate, src/arxiv_news_app.py:184-207.
\* o gives what each backend does in this call.  The result carries the
\* backends that were attempted, in order.
AppTranslateBody(type, text, cached, o) ==
    IF type = "baidu"
    THEN [ret |-> translate_with_baidu(text, cfg.baidu, o.baidu), tried |-> <<"baidu">>]
    ELSE IF type = "doubao"
    THEN [ret |-> translate_with_doubao(text, cfg.doubao, o.doubao), tried |-> <<"doubao">>]
    ELSE IF get_google_translator(cached, o.ginit)
    THEN [ret |-> GoogleCall(text, o.google), tried |-> <<"google">>]
    ELSE LET b == translate_with_baidu(text, cfg.baidu, o.baidu)
             d == translate_with_doubao(text, cfg.doubao, o.doubao)
         IN  IF b.value # Text(text)
             THEN [ret |-> b, tried |-> <<"google", "baidu">>]
             ELSE IF d.value # Text(text)
             THEN [ret |-> d, tried |-> <<"google", "baidu", "doubao">>]
             ELSE [ret |-> Return(Text(text)), tried |-> <<"google", "baidu", "doubao">>]

\* A variant of the body without the enclosing try/except of translate.
AppTranslateUnguarded(type, text, cached, o) ==
    AppTranslateBody(type, text, cached, o)

\* Translator.translate, src/arxiv_news_app.py:181-210: the body inside
\* try / except Exception: return text.
AppTranslate(type, text, cached, o) ==
    LET r == AppTranslateBody(type, text, cached, o)
    IN  IF r.ret.raised THEN [ret |-> Return(Text(text)), tried |-> r.tried] ELSE r

\* The body of the try block of the collector's Translator.translate,
\* src/arxiv_collector.py:119-163.
CollectorTranslateBody(type, text, cached, o) ==
    LET google ==
            IF get_google_translator(cached, o.ginit)
            THEN [ret |-> GoogleCall(text, o.google), tried |-> <<"google">>]
            ELSE [ret |-> Return(Text(text)), tried |-> <<"google">>]
        after(r) == [ret |-> r.ret, tried |-> <<"doubao">> \o r.tried]
    IN  IF type = "doubao"
        THEN IF ~cfg.doubao THEN google
             ELSE CASE o.doubao = "ok" ->
                         [ret |-> Return(Translation("doubao", text)), tried |-> <<"doubao">>]
                    [] o.doubao = "same" ->
                         [ret |-> Return(Text(text)), tried |-> <<"doubao">>]
                    [] o.doubao = "malformed" -> after(google)
                    [] OTHER -> [ret |-> Raise, tried |-> <<"doubao">>]
        ELSE google

\* Translator.translate, src/arxiv_collector.py:117-166.
CollectorTranslate(type, text, cached, o) ==
    LET r == CollectorTranslateBody(type, text, cached, o)
    IN  IF r.ret.raised THEN [ret |-> Return(Text(text)), tried |-> r.tried] ELSE r

OutcomeSets == [ginit : BOOLEAN, google : Outcomes, baidu : Outcomes, doubao : Outcomes]

\* What backend b did in a call that attempted the backends of tried: one of
\* Outcomes, or it was not attempted, or its keys are not filled in, or no
\* Translator instance of googletrans could be made.
Result(b, tried, cached, o) ==
    IF b \notin Range(tried) THEN "not_tried"
    ELSE IF b = "google"
    THEN IF get_google_translator(cached, o.ginit) THEN o.google ELSE "no_init"
    ELSE IF ~cfg[b] THEN "no_creds"
    ELSE o[b]

\* The record of one call: which Translator, its type and input, the backends
\* attempted in order, what each did, and how the call ended.
Call(variant, type, text, cached, o, r) ==
    [variant |-> variant, type |-> type, text |-> text, tried |-> r.tried,
     results |-> [b \in Backends |-> Result(b, r.tried, cached, o)],
     raised |-> r.ret.raised, value |-> r.ret.value]

NoCall == [variant |-> "none", type |-> "google", text |-> "t1", tried |-> <<>>,
           results |-> [b \in Backends |-> "not_tried"],
           raised |-> FALSE, value |-> Text("t1")]

\* One call of the GUI's translator.translate(text).
TranslateApp ==
    \E text \in Texts, o \in OutcomeSets :
        LET r == AppTranslate(translator_type, text, google_translator, o)
        IN  /\ call' = Call("app", translator_type, text, google_translator, o, r)
            /\ google_translator' =
                  IF translator_type \notin {"baidu", "doubao"}
                  THEN get_google_translator(google_translator, o.ginit)
                  ELSE google_translator
            /\ UNCHANGED <<cfg, translator_type, srch>>
            /\ UNCHANGED <<avars, xvars>>

\* One call of the collector's translator.translate(text).  The collector
\* never edits CONFIG at run time: its translator_type is CONFIG's type.
TranslateCollector ==
    \E text \in Texts, o \in OutcomeSets :
        LET r == CollectorTranslate(cfg.type, text, google_translator, o)
        IN  /\ call' = Call("collector", cfg.type, text, google_translator, o, r)
            /\ google_translator' =
                  IF "google" \in Range(r.tried)
                  THEN get_google_translator(google_translator, o.ginit)
                  ELSE google_translator
            /\ UNCHANGED <<cfg, translator_type, srch>>
            /\ UNCHANGED <<avars, xvars>>

\* ArxivNewsApp.save_config, src/arxiv_news_app.py:1483-1521, the translation
\* settings: CONFIG is updated first; the translator's own type only after the
\* file has been written.
save_config ==
    \E type \in Backends, b \in BOOLEAN, d \in BOOLEAN, written \in BOOLEAN :
        /\ cfg' = [type |-> type, baidu |-> b, doubao |-> d]
        /\ translator_type' = IF written THEN type ELSE translator_type
        /\ UNCHANGED <<google_translator, call, srch>>
        /\ UNCHANGED <<avars, xvars>>

(***************************************************************************)
(* Query Builder and Paper Search.                                         *)
(***************************************************************************)
physics_subcategories ==
    <<"physics.acc-ph", "physics.app-ph", "physics.atm-clus", "physics.atom-ph",
      "physics.bio-ph", "physics.chem-ph", "physics.class-ph", "physics.comp-ph",
      "physics.data-an", "physics.flu-dyn", "physics.gen-ph", "physics.geo-ph",
      "physics.hist-ph", "physics.ins-det", "physics.med-ph", "physics.optics",
      "physics.ed-ph", "physics.soc-ph", "physics.plasm-ph", "physics.pop-ph",
      "physics.space-ph">>
astro_ph_subcategories ==
    <<"astro-ph.CO", "astro-ph.EP", "astro-ph.GA", "astro-ph.HE", "astro-ph.IM",
      "astro-ph.SR">>

\* category_map of build_categories: the umbrella tokens and their sub-categories.
category_map ==
    [f \in {"physics", "astro-ph"} |->
        IF f = "physics" THEN physics_subcategories ELSE astro_ph_subcategories]

\* A builder that leaves out a token the list already holds.
RECURSIVE build_categories_once(_)
build_categories_once(fields) ==
    IF fields = <<>> THEN <<>>
    ELSE LET field == Head(fields)
             rest == build_categories_once(Tail(fields))
         IN  IF field \in DOMAIN category_map THEN category_map[field] \o rest
             ELSE IF field \in Range(rest) THEN rest
             ELSE <<field>> \o rest

\* build_categories, src/arxiv_news_app.py:882-903 and src/arxiv_collector.py:177-198.
RECURSIVE build_categories(_)
build_categories(fields) ==
    IF fields = <<>> THEN <<>>
    ELSE LET field == Head(fields)
         IN  (IF field \in DOMAIN category_map THEN category_map[field] ELSE <<field>>)
                 \o build_categories(Tail(fields))

\* The category sets a raw result of the index may carry.
PaperCategories ==
    {{"astro-ph.HE"}, {"physics.optics", "cs.AI"}, {"cs.AI"}, {"hep-th", "gr-qc"}}
\* The values of CONFIG["fields"] that are explored.
FieldLists == {<<"physics", "astro-ph">>, <<"astro-ph">>, <<"gr-qc", "physics">>}

RECURSIVE SeqsUpTo(_, _)
SeqsUpTo(S, n) ==
    IF n = 0 THEN {<<>>}
    ELSE LET shorter == SeqsUpTo(S, n - 1)
         IN  shorter \cup {Append(s, x) : s \in {t \in shorter : Len(t) = n - 1}, x \in S}

\* any(cat in result.categories for cat in categories)
CategoryMatch(categories, result) == \E i \in DOMAIN categories : categories[i] \in result

\* The test that ends the loop with the break statement written as len(results) > cap.
CapReachedStrict(results, cap) == Len(results) > cap

\* if len(results) >= CONFIG["max_results"]: break
CapReached(results, cap) == Len(results) >= cap

\* One iteration of the for loop of search_papers, src/arxiv_news_app.py:929-946
\* and src/arxiv_collector.py:225-241.  srch.i is the next raw result of
\* client.results(search); the loop ends on break or when the client is exhausted.
SearchStep ==
    /\ srch.pc = "loop"
    /\ IF srch.i > Len(srch.raw)
       THEN srch' = [srch EXCEPT !.pc = "done"]
       ELSE LET result == srch.raw[srch.i]
                keep == CategoryMatch(srch.categories, result)
                results == IF keep THEN Append(srch.results, result) ELSE srch.results
            IN  srch' = [srch EXCEPT !.results = results,
                                     !.i = srch.i + 1,
                                     !.pc = IF keep /\ CapReached(results, srch.cap)
                                            THEN "done" ELSE "loop"]
    /\ UNCHANGED tvars
    /\ UNCHANGED <<avars, xvars>>

SearchIdle == [pc |-> "idle", cap |-> 1, categories |-> <<>>, raw |-> <<>>, i |-> 1,
               results |-> <<>>]

(***************************************************************************)
(* ArxivNewsApp: playback and pregeneration.                               *)
(*                                                                         *)
(* The handlers of the GUI thread run one at a time and are taken as one   *)
(* step each.  The background threads (auto_search_and_pregenerate,        *)
(* pregenerate_speech, speech_thread, search_thread) take one step for     *)
(* each long operation: a search, the generation of one summary            *)
(* (translation, temp file, synthesis subprocess), the playback of a file. *)
(***************************************************************************)
NoPaper == <<0, 0>>
NoFile == <<0, 0, 0, 0>>
EmptyList == [id |-> 0, len |-> 0]
Paper(list, p) == <<list.id, p>>
EmptyMap == [p \in {} |-> NoFile]
Put(map, p, f) == [q \in DOMAIN map \cup {p} |-> IF q = p THEN f ELSE map[q]]
Files(map) == {map[p] : p \in DOMAIN map}

\* A pregeneration thread: its position in the code, the list it enumerates,
\* the loop variable i and the local temp_file_path.
NewThread(pc) == [pc |-> pc, list |-> EmptyList, i |-> 0, path |-> NoFile]

\* open_play_window(paper): the window, the waits opened from it (each with
\* its next_index) and the speech_thread started for paper.
NewPlay(paper) == [win |-> TRUE, waits |-> {}, paper |-> paper, pc |-> "check",
                   path |-> NoFile]

\* play_window.destroy(): the wait windows are its children and go with it,
\* and so do the callbacks they scheduled with after().
Destroy(ps, k) == [ps EXCEPT ![k].win = FALSE, ![k].waits = {}]

\* tempfile.NamedTemporaryFile(suffix=".mp3", delete=False): a new file, named
\* here after the thread that creates it (kind and number) and the paper whose
\* summary that thread writes into it.  A thread creates one file per paper.
TempFile(kind, t, paper) == <<kind, t, paper[1], paper[2]>>
AutoFile(t) == TempFile(0, 0, Paper(t.list, t.i))
WorkerFile(w) == TempFile(1, w, Paper(workers[w].list, workers[w].i))
PlayFile(k) == TempFile(2, k, plays[k].paper)
\* The paper whose summary a synthesized file holds.
Content(f) == <<f[3], f[4]>>

\* ---- the searches that replace self.current_papers ----------------------

\* check_new_papers, src/arxiv_news_app.py:951-966: starts search_thread.
check_new_papers ==
    /\ ~closed
    /\ searching + nextList <= limit.lists
    /\ searching' = searching + 1
    /\ UNCHANGED <<current_papers, nextList, current_paper_index, is_playing,
                   pregenerated_speech, speech_generating, disk, auto, workers,
                   plays, closed>>
    /\ status_label' = "checking"
    /\ UNCHANGED <<tvars, svars, limit, xvars>>

\* search_thread, src/arxiv_news_app.py:956-963, when search_papers returns.
search_thread_done ==
    /\ searching > 0
    /\ \E n \in 0..limit.papers :
          current_papers' = [id |-> nextList, len |-> n]
    /\ nextList' = nextList + 1
    /\ searching' = searching - 1
    /\ UNCHANGED <<current_paper_index, is_playing, pregenerated_speech, speech_generating,
                   disk, auto, workers, plays, closed>>
    /\ status_label' = "found"
    /\ UNCHANGED <<tvars, svars, limit, xvars>>

\* A search_thread that meets the exception with an empty result.
search_thread_empty ==
    /\ searching > 0
    /\ searching' = searching - 1
    /\ current_papers' = EmptyList
    /\ status_label' = "found"
    /\ UNCHANGED <<nextList, current_paper_index, is_playing, pregenerated_speech,
                   speech_generating, disk, auto, workers, plays, closed>>
    /\ UNCHANGED <<tvars, svars, limit, xvars>>

\* search_thread when search_papers raises: the thread ends with the exception.
search_thread_raise ==
    /\ searching > 0
    /\ searching' = searching - 1
    /\ UNCHANGED <<current_papers, nextList, current_paper_index, is_playing,
                   pregenerated_speech, speech_generating, disk, auto, workers,
                   plays, closed>>
    /\ UNCHANGED status_label
    /\ UNCHANGED <<tvars, svars, limit, xvars>>

\* reminder_loop, src/arxiv_news_app.py:1570-1578: an iteration that triggers
\* a search which finds papers.  (A search that finds none leaves the state
\* as it is.)
reminder_search ==
    /\ nextList <= limit.lists
    /\ \E n \in 1..limit.papers :
          current_papers' = [id |-> nextList, len |-> n]
    /\ nextList' = nextList + 1
    /\ UNCHANGED <<current_paper_index, is_playing, pregenerated_speech, speech_generating,
                   disk, auto, workers, plays, searching, closed>>
    /\ UNCHANGED status_label
    /\ UNCHANGED <<tvars, svars, limit, xvars>>

\* ---- pregeneration --------------------------------------------------------

\* How the generation of one summary ends:
\*   ok            the temp file is created and the subprocess writes the audio
\*   no_temp_file  an exception before temp_file_path is assigned (the cleanup,
\*                 the translation or NamedTemporaryFile raises)
\*   no_audio      the temp file is created and the subprocess fails
GenerationOutcomes == {"ok", "no_temp_file", "no_audio"}

\* The finally clause of position t.i followed by the head of the next
\* iteration (self.speech_generating[i] = True), or the end of the loop.
FlagsAfter(t) ==
    (speech_generating \ {t.i}) \cup (IF t.i + 1 < t.list.len THEN {t.i + 1} ELSE {})
ThreadAfter(t, path) ==
    IF t.i + 1 < t.list.len
    THEN [t EXCEPT !.i = t.i + 1, !.path = path]
    ELSE NewThread("done")

\* auto_search_and_pregenerate, src/arxiv_news_app.py:257-280: the search; the
\* result replaces the list; when it is not empty the files of the map are
\* unlinked, both maps are replaced and position 0 is flagged.
auto_search ==
    /\ auto.pc = "search"
    /\ \/ /\ nextList <= limit.lists
          /\ \E n \in 0..limit.papers :
                LET papers == [id |-> nextList, len |-> n]
                IN  /\ current_papers' = papers
                    /\ IF n = 0
                       THEN /\ auto' = NewThread("done")
                            /\ UNCHANGED <<pregenerated_speech, speech_generating, disk>>
                       ELSE /\ disk' = disk \ Files(pregenerated_speech)
                            /\ pregenerated_speech' = EmptyMap
                            /\ speech_generating' = {0}
                            /\ auto' = [pc |-> "generate", list |-> papers, i |-> 0,
                                        path |-> NoFile]
          /\ nextList' = nextList + 1
       \/ /\ auto' = NewThread("dead")
          /\ UNCHANGED <<current_papers, nextList, pregenerated_speech, speech_generating,
                         disk>>
    /\ UNCHANGED <<current_paper_index, is_playing, workers, plays, searching, closed>>
    /\ UNCHANGED status_label
    /\ UNCHANGED <<tvars, svars, limit, xvars>>

\* src/arxiv_news_app.py:321-325, reached before temp_file_path is assigned in
\* this iteration: 'temp_file_path' in locals() holds as soon as an earlier
\* iteration has assigned it, and that file is unlinked if it exists.
AutoExceptUnlink(t) == IF t.path # NoFile /\ t.path \in disk THEN {t.path} ELSE {}

\* src/arxiv_news_app.py:282-329: one iteration of the startup thread's loop
\* after the flag is set: try (generate, record the path), except (unlink),
\* finally (clear the flag).
auto_generate ==
    /\ auto.pc = "generate"
    /\ \E outcome \in GenerationOutcomes :
          CASE outcome = "ok" ->
                  /\ disk' = disk \cup {AutoFile(auto)}
                  /\ pregenerated_speech' = Put(pregenerated_speech, auto.i, AutoFile(auto))
                  /\ auto' = ThreadAfter(auto, AutoFile(auto))
            [] outcome = "no_audio" ->
                  /\ disk' = disk \ {AutoFile(auto)}
                  /\ auto' = ThreadAfter(auto, AutoFile(auto))
                  /\ UNCHANGED pregenerated_speech
            [] OTHER ->
                  /\ disk' = disk \ AutoExceptUnlink(auto)
                  /\ auto' = ThreadAfter(auto, auto.path)
                  /\ UNCHANGED pregenerated_speech
    /\ speech_generating' = FlagsAfter(auto)
    /\ UNCHANGED <<current_papers, nextList, current_paper_index, is_playing, workers, plays,
                   searching, closed>>
    /\ UNCHANGED status_label
    /\ UNCHANGED <<tvars, svars, limit, xvars>>

\* pregenerate_speech, src/arxiv_news_app.py:991-998: enumerate(self.current_papers)
\* takes the list of that moment; position 0 is skipped, position 1 is flagged.
pregenerate_start(w) ==
    /\ workers[w].pc = "start"
    /\ IF current_papers.len <= 1
       THEN /\ workers' = [workers EXCEPT ![w] = NewThread("done")]
            /\ UNCHANGED speech_generating
       ELSE /\ workers' = [workers EXCEPT ![w].pc = "generate", ![w].list = current_papers,
                                          ![w].i = 1]
            /\ speech_generating' = speech_generating \cup {1}
    /\ UNCHANGED <<current_papers, nextList, current_paper_index, is_playing,
                   pregenerated_speech, disk, auto, plays, searching, closed>>
    /\ UNCHANGED status_label
    /\ UNCHANGED <<tvars, svars, limit, xvars>>

\* src/arxiv_news_app.py:1000-1043: one iteration of the worker's loop after
\* the flag is set.  Lines 1000-1031 lie outside the try statement: an
\* exception there ends the thread and the finally clause is not reached.
pregenerate_generate(w) ==
    /\ workers[w].pc = "generate"
    /\ LET t == workers[w]
       IN  \E outcome \in GenerationOutcomes :
              CASE outcome = "ok" ->
                      /\ disk' = disk \cup {WorkerFile(w)}
                      /\ pregenerated_speech' =
                            Put(pregenerated_speech, t.i, WorkerFile(w))
                      /\ speech_generating' = FlagsAfter(t)
                      /\ workers' = [workers EXCEPT ![w] = ThreadAfter(t, WorkerFile(w))]
                [] outcome = "no_audio" ->
                      /\ disk' = disk \ {WorkerFile(w)}
                      /\ speech_generating' = FlagsAfter(t)
                      /\ workers' = [workers EXCEPT ![w] = ThreadAfter(t, WorkerFile(w))]
                      /\ UNCHANGED pregenerated_speech
                [] OTHER ->
                      /\ workers' = [workers EXCEPT ![w] = NewThread("dead")]
                      /\ UNCHANGED <<disk, pregenerated_speech, speech_generating>>
    /\ UNCHANGED <<current_papers, nextList, current_paper_index, is_playing, auto, plays,
                   searching, closed>>
    /\ UNCHANGED status_label
    /\ UNCHANGED <<tvars, svars, limit, xvars>>

\* ---- playback ---------------------------------------------------------------

\* A test that is content with an entry under any position.
HasEntryAny(idx) == pregenerated_speech # EmptyMap

\* src/arxiv_news_app.py:1074: self.current_paper_index in self.pregenerated_speech.
HasEntry(idx) == idx \in DOMAIN pregenerated_speech

\* speech_thread, src/arxiv_news_app.py:1074: the test, on
\* self.current_paper_index as it is when the thread runs.  Without an entry
\* the summary is generated on the spot.
speech_check(k) ==
    /\ plays[k].pc = "check"
    /\ plays' = [plays EXCEPT ![k].pc = IF HasEntry(current_paper_index)
                                        THEN "fetch" ELSE "generate"]
    /\ UNCHANGED <<current_papers, nextList, current_paper_index, is_playing,
                   pregenerated_speech, speech_generating, disk, auto, workers, searching,
                   closed>>
    /\ UNCHANGED status_label
    /\ UNCHANGED <<tvars, svars, limit, xvars>>

\* speech_thread, src/arxiv_news_app.py:1076-1086: the path is read from the
\* map under the index of that moment (a KeyError ends the thread at 1141),
\* and the file is played if it exists.
speech_fetch(k) ==
    /\ plays[k].pc = "fetch"
    /\ plays' = IF current_paper_index \in DOMAIN pregenerated_speech
                   /\ pregenerated_speech[current_paper_index] \in disk
                THEN [plays EXCEPT ![k].pc = "playing",
                                   ![k].path = pregenerated_speech[current_paper_index]]
                ELSE [plays EXCEPT ![k].pc = "done"]
    /\ UNCHANGED <<current_papers, nextList, current_paper_index, is_playing,
                   pregenerated_speech, speech_generating, disk, auto, workers, searching,
                   closed>>
    /\ UNCHANGED status_label
    /\ UNCHANGED <<tvars, svars, limit, xvars>>

\* src/arxiv_news_app.py:1091-1134: the summary of the thread's own paper is
\* generated; an exception is caught at 1141 and ends the thread, and the temp
\* file, if it was created, stays.
speech_generate(k) ==
    /\ plays[k].pc = "generate"
    /\ \E outcome \in GenerationOutcomes :
          CASE outcome = "ok" ->
                  /\ disk' = disk \cup {PlayFile(k)}
                  /\ plays' = [plays EXCEPT ![k].pc = "playing", ![k].path = PlayFile(k)]
            [] outcome = "no_audio" ->
                  /\ disk' = disk \cup {PlayFile(k)}
                  /\ plays' = [plays EXCEPT ![k].pc = "done"]
            [] OTHER ->
                  /\ plays' = [plays EXCEPT ![k].pc = "done"]
                  /\ UNCHANGED disk
    /\ UNCHANGED <<current_papers, nextList, current_paper_index, is_playing,
                   pregenerated_speech, speech_generating, auto, workers, searching, closed>>
    /\ UNCHANGED status_label
    /\ UNCHANGED <<tvars, svars, limit, xvars>>

\* The file a speech_thread plays was generated by the thread itself.
Sync(k) == plays[k].path[1] = 2

\* What follows play_audio_file in speech_thread: the file generated on the
\* spot is unlinked (1137); a pregenerated file is left alone (1084).
AfterPlayback(k) ==
    /\ plays' = [plays EXCEPT ![k].pc = "played"]
    /\ disk' = IF Sync(k) THEN disk \ {plays[k].path} ELSE disk
    /\ UNCHANGED <<current_papers, nextList, current_paper_index, is_playing,
                   pregenerated_speech, speech_generating, auto, workers, searching, closed>>

\* play_audio_file, src/arxiv_news_app.py:1149-1176: get_busy() turns false (the
\* audio is over), or the mixer fails and the file is handed to the system player.
audio_over(k) ==
    /\ plays[k].pc = "playing"
    /\ AfterPlayback(k)
    /\ UNCHANGED status_label
    /\ UNCHANGED <<tvars, svars, limit, xvars>>

\* play_audio_file, src/arxiv_news_app.py:1162: the poll loop sees is_playing false.
audio_stopped(k) ==
    /\ plays[k].pc = "playing"
    /\ ~is_playing
    /\ AfterPlayback(k)
    /\ UNCHANGED status_label
    /\ UNCHANGED <<tvars, svars, limit, xvars>>

\* ---- the handlers of the GUI thread ---------------------------------------

\* play_next_paper, src/arxiv_news_app.py:1049-1059, called with index idx:
\* the flag it leaves and the play windows after it.
StillPlaying(idx) == is_playing /\ idx < current_papers.len
PlayNext(ps, idx) ==
    IF StillPlaying(idx) THEN Append(ps, NewPlay(Paper(current_papers, idx))) ELSE ps
CanOpen(idx) == StillPlaying(idx) => Len(plays) < limit.plays

\* play_latest_papers, src/arxiv_news_app.py:968-1047.
play_latest_papers ==
    /\ ~closed
    /\ current_papers.len > 0
    /\ Len(workers) < limit.sessions
    /\ Len(plays) < limit.plays
    /\ is_playing' = TRUE
    /\ current_paper_index' = 0
    /\ disk' = disk \ Files(pregenerated_speech)
    /\ pregenerated_speech' = EmptyMap
    /\ speech_generating' = {}
    /\ plays' = Append(plays, NewPlay(Paper(current_papers, 0)))
    /\ workers' = Append(workers, NewThread("start"))
    /\ UNCHANGED <<current_papers, nextList, auto, searching, closed>>
    /\ status_label' = "playing"
    /\ UNCHANGED <<tvars, svars, limit, xvars>>

\* src/arxiv_news_app.py:676-678 and 686-688: the index moves on, the play
\* window is destroyed and play_next_paper runs.
Advance(k) ==
    /\ CanOpen(current_paper_index + 1)
    /\ current_paper_index' = current_paper_index + 1
    /\ plays' = PlayNext(Destroy(plays, k), current_paper_index + 1)
    /\ is_playing' = StillPlaying(current_paper_index + 1)

\* src/arxiv_news_app.py:652 and 673: the flag of next_index is absent or false.
WaitOver(n) == n \notin speech_generating

\* next_paper, src/arxiv_news_app.py:642-688, the button of play window k.
next_paper(k) ==
    /\ ~closed
    /\ plays[k].win
    /\ current_paper_index + 1 < current_papers.len
    /\ IF ~WaitOver(current_paper_index + 1)
       THEN /\ plays' = [plays EXCEPT ![k].waits = @ \cup {current_paper_index + 1}]
            /\ UNCHANGED <<current_paper_index, is_playing>>
       ELSE Advance(k)
    /\ UNCHANGED <<current_papers, nextList, pregenerated_speech, speech_generating, disk,
                   auto, workers, searching, closed>>
    /\ status_label' = IF plays'[k].win \/ StillPlaying(current_paper_index + 1)
                        THEN status_label ELSE "finished"
    /\ UNCHANGED <<tvars, svars, limit, xvars>>

\* check_speech_status, src/arxiv_news_app.py:672-681, of the wait for n opened
\* from play window k, when it finds the flag cleared.  (While the flag is set
\* it only schedules itself again.)
check_speech_status(k, n) ==
    /\ ~closed
    /\ plays[k].win
    /\ n \in plays[k].waits
    /\ WaitOver(n)
    /\ Advance(k)
    /\ UNCHANGED <<current_papers, nextList, pregenerated_speech, speech_generating, disk,
                   auto, workers, searching, closed>>
    /\ status_label' = IF StillPlaying(current_paper_index + 1)
                        THEN status_label ELSE "finished"
    /\ UNCHANGED <<tvars, svars, limit, xvars>>

\* cancel_wait, src/arxiv_news_app.py:665-666.
cancel_wait(k, n) ==
    /\ ~closed
    /\ plays[k].win
    /\ n \in plays[k].waits
    /\ plays' = [plays EXCEPT ![k].waits = @ \ {n}]
    /\ UNCHANGED <<current_papers, nextList, current_paper_index, is_playing,
                   pregenerated_speech, speech_generating, disk, auto, workers,
                   searching, closed>>
    /\ UNCHANGED status_label
    /\ UNCHANGED <<tvars, svars, limit, xvars>>

\* next_paper, src/arxiv_news_app.py:642-688, up to the test of
\* play_next_paper (1051), with the GUI thread's reads of self.current_papers
\* kept apart: play_next_paper reads the attribute for the test and reads it
\* again for the indexing (1056), and the threads that assign it (960, 1576)
\* run beside the GUI thread.
next_paper_until_test(k) ==
    /\ ~closed
    /\ gui = "idle"
    /\ plays[k].win
    /\ current_paper_index + 1 < current_papers.len
    /\ IF ~WaitOver(current_paper_index + 1)
       THEN /\ plays' = [plays EXCEPT ![k].waits = @ \cup {current_paper_index + 1}]
            /\ UNCHANGED <<current_paper_index, is_playing, gui, status_label>>
       ELSE /\ current_paper_index' = current_paper_index + 1
            /\ plays' = Destroy(plays, k)
            /\ is_playing' = StillPlaying(current_paper_index + 1)
            /\ gui' = IF StillPlaying(current_paper_index + 1) THEN "tested" ELSE "idle"
            /\ status_label' = IF StillPlaying(current_paper_index + 1)
                                THEN status_label ELSE "finished"
    /\ UNCHANGED <<current_papers, nextList, pregenerated_speech, speech_generating, disk,
                   auto, workers, searching, closed>>
    /\ UNCHANGED <<tvars, svars, limit, rvars, dvars, bvars>>

\* play_next_paper, src/arxiv_news_app.py:1056-1059, after its test:
\* self.current_papers[self.current_paper_index] and open_play_window(paper).
\* An IndexError ends the callback: no window is opened.
play_next_paper_index ==
    /\ gui = "tested"
    /\ gui' = "idle"
    /\ plays' = IF current_paper_index < current_papers.len
                THEN Append(plays, NewPlay(Paper(current_papers, current_paper_index)))
                ELSE plays
    /\ UNCHANGED <<current_papers, nextList, current_paper_index, is_playing,
                   pregenerated_speech, speech_generating, disk, auto, workers, searching,
                   closed>>
    /\ UNCHANGED status_label
    /\ UNCHANGED <<tvars, svars, limit, rvars, dvars, bvars>>

\* stop_playback, src/arxiv_news_app.py:1061-1064, from the main window's button.
stop_playback ==
    /\ ~closed
    /\ is_playing' = FALSE
    /\ UNCHANGED <<current_papers, nextList, current_paper_index, pregenerated_speech,
                   speech_generating, disk, auto, workers, plays, searching,
                   closed>>
    /\ status_label' = "stopped"
    /\ UNCHANGED <<tvars, svars, limit, xvars>>

\* The stop button of play window k, src/arxiv_news_app.py:694:
\* stop_playback() and play_window.destroy().
stop_in_window(k) ==
    /\ ~closed
    /\ plays[k].win
    /\ is_playing' = FALSE
    /\ plays' = Destroy(plays, k)
    /\ UNCHANGED <<current_papers, nextList, current_paper_index, pregenerated_speech,
                   speech_generating, disk, auto, workers, searching, closed>>
    /\ status_label' = "stopped"
    /\ UNCHANGED <<tvars, svars, limit, xvars>>

\* on_close, src/arxiv_news_app.py:1582-1595: the files of the map are
\* unlinked, the map is left as it is, root.destroy() takes every window.
on_close ==
    /\ ~closed
    /\ closed' = TRUE
    /\ disk' = disk \ Files(pregenerated_speech)
    /\ plays' = [k \in DOMAIN plays |-> [plays[k] EXCEPT !.win = FALSE, !.waits = {}]]
    /\ UNCHANGED <<current_papers, nextList, current_paper_index, is_playing,
                   pregenerated_speech, speech_generating, auto, workers, searching>>
    /\ UNCHANGED status_label
    /\ UNCHANGED <<tvars, svars, limit, xvars>>

(***************************************************************************)
(* reminder_loop, src/arxiv_news_app.py:1523-1580.                         *)
(* The clock counts hours; day % 7 = 0 is a Monday.  One iteration of the  *)
(* loop up to its sleep or up to the search it starts is one step.         *)
(***************************************************************************)
\* CONFIG["reminder_start_time"] and CONFIG["reminder_end_time"].
reminder_start_time == 10
reminder_end_time == 18

\* last_reminder.txt does not exist.
NoStamp == <<-1, -1>>
\* now.strftime("%Y-%m-%d %H")
Stamp(now) == <<now.day, now.hour>>
\* now.weekday()
weekday(now) == now.day % 7

ReminderThread(pc, window) == [pc |-> pc, window |-> window]

\* The test of the file without the comparison.
NeverReminded(last, now) == FALSE

\* Lines 1559-1566: the file exists and holds the stamp of this hour.
AlreadyReminded(last, now) == last # NoStamp /\ last = Stamp(now)

\* The window test with the end hour let in.
InWindowInclusive(now) ==
    ~(now.hour < reminder_start_time \/ now.hour > reminder_end_time)

\* Line 1549, negated: the hour is inside the reminder window.
InWindow(now) ==
    ~(now.hour < reminder_start_time \/ now.hour >= reminder_end_time)

\* Lines 1526-1556: the iteration gets as far as the test of the file.
ReachesFile(now) ==
    /\ reminder_enabled
    /\ ~skip_today
    /\ ~(weekday(now) >= 5)
    /\ InWindow(now)
    /\ now.hour % 2 = 0

\* Time passes: the next hour, or the first hour of the next day.
clock_tick ==
    /\ clock.day < FirstDay + MaxDays - 1 \/ clock.hour < 23
    /\ clock' = IF clock.hour < 23
                THEN [clock EXCEPT !.hour = @ + 1]
                ELSE [clock EXCEPT !.day = @ + 1, !.hour = 0]
    /\ UNCHANGED <<reminder_enabled, skip_today, last_reminder, reminder, triggered>>
    /\ polled' = FALSE
    /\ UNCHANGED <<tvars, svars, avars, dvars, bvars, gvars>>

\* The checkbox of the main window (line 231 and its Checkbutton).
toggle_reminder ==
    /\ reminder_enabled' = ~reminder_enabled
    /\ UNCHANGED <<clock, skip_today, last_reminder, reminder, triggered>>
    /\ UNCHANGED polled
    /\ UNCHANGED <<tvars, svars, avars, dvars, bvars, gvars>>

\* show_reminder_window, line 731: the button that skips today.
reminder_skip_today ==
    /\ reminder.window
    /\ skip_today' = TRUE
    /\ reminder' = [reminder EXCEPT !.window = FALSE]
    /\ UNCHANGED <<clock, reminder_enabled, last_reminder, triggered>>
    /\ UNCHANGED polled
    /\ UNCHANGED <<tvars, svars, avars, dvars, bvars, gvars>>

\* show_reminder_window, line 727: the button that skips this reminder.
reminder_dismiss ==
    /\ reminder.window
    /\ reminder' = [reminder EXCEPT !.window = FALSE]
    /\ UNCHANGED <<clock, reminder_enabled, skip_today, last_reminder, triggered>>
    /\ UNCHANGED polled
    /\ UNCHANGED <<tvars, svars, avars, dvars, bvars, gvars>>

\* Lines 1525-1568 and 1580: one iteration of the loop up to its sleep, or up
\* to the search when it triggers one.  Writing the file may raise, and
\* nothing in the loop catches it.
reminder_poll ==
    /\ reminder.pc = "poll"
    /\ IF ~reminder_enabled
       THEN UNCHANGED <<skip_today, last_reminder, reminder, triggered>>
       ELSE IF skip_today
       THEN /\ skip_today' = ~(clock.hour >= reminder_end_time)
            /\ UNCHANGED <<last_reminder, reminder, triggered>>
       ELSE IF ReachesFile(clock) /\ ~AlreadyReminded(last_reminder, clock)
       THEN /\ \E written \in BOOLEAN :
                  IF written
                  THEN /\ last_reminder' = Stamp(clock)
                       /\ reminder' = [reminder EXCEPT !.pc = "search"]
                       /\ triggered' = triggered \cup {Stamp(clock)}
                  ELSE /\ reminder' = [reminder EXCEPT !.pc = "dead"]
                       /\ UNCHANGED <<last_reminder, triggered>>
            /\ UNCHANGED skip_today
       ELSE UNCHANGED <<skip_today, last_reminder, reminder, triggered>>
    /\ polled' = TRUE
    /\ UNCHANGED <<clock, reminder_enabled>>
    /\ UNCHANGED <<tvars, svars, avars, dvars, bvars, gvars>>

\* Lines 1573-1578: the search returns papers; they are installed and the
\* reminder window is asked for.
reminder_found ==
    /\ reminder.pc = "search"
    /\ nextList <= limit.lists
    /\ \E n \in 1..limit.papers :
          current_papers' = [id |-> nextList, len |-> n]
    /\ nextList' = nextList + 1
    /\ reminder' = ReminderThread("poll", TRUE)
    /\ UNCHANGED <<clock, reminder_enabled, skip_today, last_reminder, triggered>>
    /\ UNCHANGED <<current_paper_index, is_playing, pregenerated_speech, speech_generating,
                   disk, auto, workers, plays, searching, closed, status_label, limit>>
    /\ UNCHANGED polled
    /\ UNCHANGED <<tvars, svars, dvars, bvars, gvars>>

\* Lines 1573-1575: the search returns an empty list.
reminder_none ==
    /\ reminder.pc = "search"
    /\ reminder' = [reminder EXCEPT !.pc = "poll"]
    /\ UNCHANGED <<clock, reminder_enabled, skip_today, last_reminder, triggered>>
    /\ UNCHANGED polled
    /\ UNCHANGED <<tvars, svars, avars, dvars, bvars, gvars>>

\* Line 1573: search_papers raises.  The loop has no try: the exception leaves
\* reminder_loop and the thread is over.
reminder_raise ==
    /\ reminder.pc = "search"
    /\ reminder' = [reminder EXCEPT !.pc = "dead"]
    /\ UNCHANGED <<clock, reminder_enabled, skip_today, last_reminder, triggered>>
    /\ UNCHANGED polled
    /\ UNCHANGED <<tvars, svars, avars, dvars, bvars, gvars>>

(***************************************************************************)
(* main of the collector, src/arxiv_collector.py:403-430, with             *)
(* process_papers (378-400).  Every await and the write of the summary     *)
(* file is one step; a step either returns or raises an Exception.         *)
(***************************************************************************)
Driver(pc, n, i, runs, errors, raised_at) ==
    [pc |-> pc, n |-> n, i |-> i, runs |-> runs, errors |-> errors, raised_at |-> raised_at]

\* A try block that ends after the search.
InsideTrySearchOnly(pc) == pc = "search"

\* Lines 408-425: the positions inside the try block of main.
InsideTry(pc) ==
    pc \in {"search", "summarize", "save", "speech", "play", "pause",
            "no_papers_speech", "no_papers_play", "sleep"}

\* An Exception is raised at the position of d: inside the try block it
\* reaches the handler of lines 427-430, elsewhere it leaves main.
Except(d) ==
    [d EXCEPT !.pc = IF InsideTry(d.pc) THEN "cooldown" ELSE "terminated",
              !.errors = @ + 1,
              !.raised_at = d.pc]

\* The step in hand returns and the driver is at `next`, or it raises.
ReturnsOrRaises(next) ==
    \/ driver' = next
    \/ /\ driver.errors < MaxErrors
       /\ driver' = Except(driver)

\* The step `stage` of process_papers for the paper in hand is on the log
\* once it has returned.
Logged(stage) ==
    log' = IF driver'.errors > driver.errors THEN log ELSE Append(log, <<stage, driver.i>>)

\* What a speech engine does in one call of text_to_speech:
\*   ok       it is installed and writes the audio file
\*   missing  its import raises ImportError
\*   raise    it is installed and the synthesis raises
EngineOutcomes == {"ok", "missing", "raise"}

Speech(called, edge, gtts, tried, file, raised) ==
    [called |-> called, edge |-> edge, gtts |-> gtts, tried |-> tried,
     file |-> file, raised |-> raised]

NoSpeech == Speech(FALSE, "ok", "ok", <<>>, FALSE, FALSE)

\* A text_to_speech whose last handler logs the error and returns.
text_to_speech_swallow(edge, gtts) ==
    IF edge = "ok" THEN Speech(TRUE, edge, gtts, <<"edge-tts">>, TRUE, FALSE)
    ELSE IF edge = "raise" THEN Speech(TRUE, edge, gtts, <<"edge-tts">>, FALSE, FALSE)
    ELSE Speech(TRUE, edge, gtts, <<"edge-tts", "gtts">>, gtts = "ok", gtts # "ok")

\* text_to_speech, src/arxiv_collector.py:289-317.  edge-tts is tried first
\* (293-305); an ImportError leads to gTTS (306-313), whose own exceptions
\* leave the handler; any other exception is logged and raised again (314-316).
text_to_speech(edge, gtts) ==
    IF edge = "ok" THEN Speech(TRUE, edge, gtts, <<"edge-tts">>, TRUE, FALSE)
    ELSE IF edge = "raise" THEN Speech(TRUE, edge, gtts, <<"edge-tts">>, FALSE, TRUE)
    ELSE Speech(TRUE, edge, gtts, <<"edge-tts", "gtts">>, gtts = "ok", gtts # "ok")

\* One call of text_to_speech at the position in hand: it returns and the
\* driver is at `next`, or what it raises reaches main.
Synthesizes(next) ==
    \E edge \in EngineOutcomes, gtts \in EngineOutcomes :
        LET r == text_to_speech(edge, gtts)
        IN  /\ speech' = r
            /\ IF r.raised
               THEN /\ driver.errors < MaxErrors
                    /\ driver' = Except(driver)
               ELSE driver' = next

\* Line 410: papers = await search_papers().
main_search ==
    /\ driver.pc = "search"
    /\ driver.runs < MaxRuns
    /\ \E n \in 0..MaxFound :
          ReturnsOrRaises([driver EXCEPT !.pc = IF n > 0 THEN "summarize" ELSE "no_papers_speech",
                                         !.n = n, !.i = 1, !.runs = @ + 1])
    /\ log' = <<>>
    /\ UNCHANGED speech
    /\ UNCHANGED <<tvars, svars, avars, rvars, bvars, gvars>>

\* process_papers, line 384: summarize_paper.
process_summarize ==
    /\ driver.pc = "summarize"
    /\ ReturnsOrRaises([driver EXCEPT !.pc = "save"])
    /\ Logged("summarize")
    /\ UNCHANGED speech
    /\ UNCHANGED <<tvars, svars, avars, rvars, bvars, gvars>>

\* process_papers, lines 388-390: the summary is written to its file.
process_save ==
    /\ driver.pc = "save"
    /\ ReturnsOrRaises([driver EXCEPT !.pc = "speech"])
    /\ Logged("save")
    /\ UNCHANGED speech
    /\ UNCHANGED <<tvars, svars, avars, rvars, bvars, gvars>>

\* process_papers, line 394: text_to_speech.
process_speech ==
    /\ driver.pc = "speech"
    /\ Synthesizes([driver EXCEPT !.pc = "play"])
    /\ Logged("speech")
    /\ UNCHANGED <<tvars, svars, avars, rvars, bvars, gvars>>

\* How play_speech, src/arxiv_collector.py:320-375, ends when it returns:
\*   finished       pygame played the file and the busy loop saw its end (325-341)
\*   still_playing  pygame failed; the file was handed to the system player,
\*                  which runs on its own, and play_speech slept for a time
\*                  estimated from the size of the file, or for 15 seconds
\*                  (342-375), without looking at the player
PlayOutcomes == {"finished", "still_playing"}

\* process_papers, line 397: play_speech.
process_play ==
    /\ driver.pc = "play"
    /\ ReturnsOrRaises([driver EXCEPT !.pc = "pause"])
    /\ \E end \in PlayOutcomes :
          Logged(IF end = "finished" THEN "play" ELSE "play_started")
    /\ UNCHANGED speech
    /\ UNCHANGED <<tvars, svars, avars, rvars, bvars, gvars>>

\* process_papers, line 400: the pause, then the next paper or the end of the loop.
process_pause ==
    /\ driver.pc = "pause"
    /\ ReturnsOrRaises(IF driver.i < driver.n
                       THEN [driver EXCEPT !.pc = "summarize", !.i = @ + 1]
                       ELSE [driver EXCEPT !.pc = "sleep"])
    /\ UNCHANGED <<speech, log>>
    /\ UNCHANGED <<tvars, svars, avars, rvars, bvars, gvars>>

\* Lines 417-420: the announcement that nothing was found.
no_papers_speech ==
    /\ driver.pc = "no_papers_speech"
    /\ Synthesizes([driver EXCEPT !.pc = "no_papers_play"])
    /\ UNCHANGED log
    /\ UNCHANGED <<tvars, svars, avars, rvars, bvars, gvars>>

no_papers_play ==
    /\ driver.pc = "no_papers_play"
    /\ ReturnsOrRaises([driver EXCEPT !.pc = "sleep"])
    /\ UNCHANGED <<speech, log>>
    /\ UNCHANGED <<tvars, svars, avars, rvars, bvars, gvars>>

\* Lines 424-425: the wait of CONFIG["schedule_interval"] seconds, then the loop again.
main_sleep ==
    /\ driver.pc = "sleep"
    /\ driver' = [driver EXCEPT !.pc = "search"]
    /\ UNCHANGED <<speech, log>>
    /\ UNCHANGED <<tvars, svars, avars, rvars, bvars, gvars>>

\* Lines 427-430: the handler logs, waits an hour, and the loop runs again.
main_cooldown ==
    /\ driver.pc = "cooldown"
    /\ driver' = [driver EXCEPT !.pc = "search"]
    /\ UNCHANGED <<speech, log>>
    /\ UNCHANGED <<tvars, svars, avars, rvars, bvars, gvars>>

(***************************************************************************)
(* build_query, src/arxiv_news_app.py:878-880 and                          *)
(* src/arxiv_collector.py:172-174.  A string is the sequence of its        *)
(* characters.                                                             *)
(***************************************************************************)
\* The characters of the keywords that are explored: a letter and the double quote.
KeywordChars == {"a", "\""}
Keywords == SeqsUpTo(KeywordChars, MaxKeywordLen)
KeywordLists == SeqsUpTo(Keywords, MaxKeywords)

\* f"\"{keyword}\""
Quoted(keyword) == <<"\"">> \o keyword \o <<"\"">>

\* sep.join(fragments)
RECURSIVE Join(_, _)
Join(sep, fragments) ==
    IF fragments = <<>> THEN <<>>
    ELSE IF Len(fragments) = 1 THEN fragments[1]
    ELSE fragments[1] \o sep \o Join(sep, Tail(fragments))

\* A builder that ends every fragment with the separator.
RECURSIVE build_query_trailing(_)
build_query_trailing(keywords) ==
    IF keywords = <<>> THEN <<>>
    ELSE Quoted(Head(keywords)) \o <<" ", "O", "R", " ">> \o build_query_trailing(Tail(keywords))

\* " OR ".join(f"\"{keyword}\"" for keyword in keywords)
build_query(keywords) ==
    Join(<<" ", "O", "R", " ">>, [i \in DOMAIN keywords |-> Quoted(keywords[i])])

\* The subject-area tokens that are explored: the two umbrella tokens, a
\* category without sub-categories and a sub-category of physics.
FieldTokens == {"physics", "astro-ph", "gr-qc", "physics.optics"}

Builder(fn, arg, out, pc) == [fn |-> fn, arg |-> arg, out |-> out, pc |-> pc]

\* self.build_query(CONFIG["keywords"]), src/arxiv_news_app.py:910.
call_build_query ==
    /\ qb.pc = "call"
    /\ qb.fn = "build_query"
    /\ qb' = [qb EXCEPT !.out = build_query(qb.arg), !.pc = "done"]
    /\ UNCHANGED sb
    /\ UNCHANGED <<tvars, svars, avars, rvars, dvars, gvars>>

\* self.build_categories(CONFIG["fields"]), src/arxiv_news_app.py:911.
call_build_categories ==
    /\ qb.pc = "call"
    /\ qb.fn = "build_categories"
    /\ qb' = [qb EXCEPT !.out = build_categories(qb.arg), !.pc = "done"]
    /\ UNCHANGED sb
    /\ UNCHANGED <<tvars, svars, avars, rvars, dvars, gvars>>

(***************************************************************************)
(* The cleanup of a title or abstract before translation:                  *)
(* summarize_paper, src/arxiv_collector.py:257-266, and the three places   *)
(* of src/arxiv_news_app.py that build a spoken summary (284-285,          *)
(* 1001-1002, 1092-1093).                                                  *)
(* A text is a sequence of tokens: "w" a character that is neither white   *)
(* space nor markup, "sp" a blank, "nl" a newline, "$" a dollar sign,      *)
(* "cmd{" a backslash, letters and an opening brace, "}" a closing brace.  *)
(***************************************************************************)
TextTokens == {"w", "sp", "nl", "$", "cmd{", "}"}
Whitespace == {"sp", "nl"}

\* "Title with $x^2$ math": words and the formula are one token each.
TitleWithMath == <<"w", "sp", "w", "sp", "$", "w", "$", "sp", "w">>

\* A title with a run of three blanks between two words.
WideGap == <<"w", "sp", "sp", "sp", "w">>

SummaryTexts == SeqsUpTo(TextTokens, MaxText) \cup {TitleWithMath, WideGap}

\* The places that build a spoken summary.
SummaryPaths ==
    {"summarize_paper", "auto_search_and_pregenerate", "pregenerate_speech", "speech_thread"}

\* The end of the shortest match of `.*?close` at the start of rest: the first
\* close that no newline precedes ('.' does not match a newline); 0 for none.
SpanEnd(rest, close) ==
    LET ends == {j \in DOMAIN rest :
                    /\ rest[j] = close
                    /\ \A k \in 1..(j - 1) : rest[k] # "nl" /\ rest[k] # close}
    IN  IF ends = {} THEN 0 ELSE CHOOSE j \in ends : TRUE

\* re.sub of a pattern `open.*?close` by the empty string: matches are looked
\* for from left to right and do not overlap.
RECURSIVE re_sub_span(_, _, _)
re_sub_span(text, open, close) ==
    IF text = <<>> THEN <<>>
    ELSE LET rest == Tail(text)
             end == SpanEnd(rest, close)
         IN  IF Head(text) = open /\ end > 0
             THEN re_sub_span(SubSeq(rest, end + 1, Len(rest)), open, close)
             ELSE <<Head(text)>> \o re_sub_span(rest, open, close)

\* re.sub(r'\$.*?\$', '', text)
re_sub_math(text) == re_sub_span(text, "$", "$")

\* re.sub(r'\\[a-zA-Z]+\{.*?\}', '', text)
re_sub_command(text) == re_sub_span(text, "cmd{", "}")

\* The collapse written as text.replace('  ', ' '): every pair of blanks, from
\* left to right, becomes one.
RECURSIVE replace_pairs(_)
replace_pairs(text) ==
    IF Len(text) < 2 THEN text
    ELSE IF text[1] \in Whitespace /\ text[2] \in Whitespace
         THEN <<"sp">> \o replace_pairs(Tail(Tail(text)))
         ELSE <<Head(text)>> \o replace_pairs(Tail(text))

\* re.sub(r'\s+', ' ', text): every run of white space becomes one blank.
RECURSIVE re_sub_whitespace(_)
re_sub_whitespace(text) ==
    IF text = <<>> THEN <<>>
    ELSE IF Head(text) \in Whitespace
         THEN LET rest == re_sub_whitespace(Tail(text))
              IN  IF rest # <<>> /\ Head(rest) = "sp" THEN rest ELSE <<"sp">> \o rest
         ELSE <<Head(text)>> \o re_sub_whitespace(Tail(text))

\* text.strip()
RECURSIVE strip(_)
strip(text) ==
    IF text = <<>> THEN <<>>
    ELSE IF Head(text) \in Whitespace THEN strip(Tail(text))
    ELSE IF text[Len(text)] \in Whitespace THEN strip(SubSeq(text, 1, Len(text) - 1))
    ELSE text

\* summarize_paper, src/arxiv_collector.py:257-266.
summarize_paper_cleanup(text) ==
    strip(re_sub_whitespace(re_sub_command(re_sub_math(text))))

\* src/arxiv_news_app.py:284-285, 1001-1002 and 1092-1093.
app_cleanup(text) == re_sub_math(text)

Cleanup(path, text) ==
    IF path = "summarize_paper" THEN summarize_paper_cleanup(text) ELSE app_cleanup(text)

Cleaner(path, text, out, again, pc) ==
    [path |-> path, text |-> text, out |-> out, again |-> again, pc |-> pc]

\* The cleanup of the text in hand on the path `path`.
Cleans(path) ==
    /\ sb.pc = "start"
    /\ sb.path = path
    /\ sb' = [sb EXCEPT !.out = Cleanup(path, sb.text), !.pc = "done"]

\* summarize_paper of the collector.
summarize_paper ==
    /\ Cleans("summarize_paper")
    /\ UNCHANGED qb
    /\ UNCHANGED <<tvars, svars, avars, rvars, dvars, gvars>>

\* The startup thread of the GUI, lines 284-285.
auto_cleanup ==
    /\ Cleans("auto_search_and_pregenerate")
    /\ UNCHANGED qb
    /\ UNCHANGED <<tvars, svars, avars, rvars, dvars, gvars>>

\* The pregeneration worker of play_latest_papers, lines 1001-1002.
pregenerate_cleanup ==
    /\ Cleans("pregenerate_speech")
    /\ UNCHANGED qb
    /\ UNCHANGED <<tvars, svars, avars, rvars, dvars, gvars>>

\* The synchronous generation of the playback thread, lines 1092-1093.
speech_thread_cleanup ==
    /\ Cleans("speech_thread")
    /\ UNCHANGED qb
    /\ UNCHANGED <<tvars, svars, avars, rvars, dvars, gvars>>

\* The cleanup of the same path applied to its own output.
cleanup_again ==
    /\ sb.pc = "done"
    /\ sb' = [sb EXCEPT !.again = Cleanup(sb.path, sb.out), !.pc = "twice"]
    /\ UNCHANGED qb
    /\ UNCHANGED <<tvars, svars, avars, rvars, dvars, gvars>>

\* No reminder thread in the run in hand.
ReminderIdle ==
    /\ clock = [day |-> 0, hour |-> 0]
    /\ reminder_enabled = TRUE
    /\ skip_today = FALSE
    /\ last_reminder = NoStamp
    /\ reminder = ReminderThread("idle", FALSE)
    /\ triggered = {}
    /\ polled = FALSE

DriverIdle ==
    /\ driver = Driver("idle", 0, 0, 0, 0, "none")
    /\ speech = NoSpeech
    /\ log = <<>>
BuildersIdle ==
    /\ qb = Builder("idle", <<>>, <<>>, "idle")
    /\ sb = Cleaner("idle", <<>>, <<>>, <<>>, "idle")
OthersIdle == ReminderIdle /\ DriverIdle /\ BuildersIdle

(***************************************************************************)
(* The specifications.                                                     *)
(***************************************************************************)
AppIdle ==
    /\ current_papers = EmptyList
    /\ nextList = 1
    /\ current_paper_index = 0
    /\ is_playing = FALSE
    /\ pregenerated_speech = EmptyMap
    /\ speech_generating = {}
    /\ disk = {}
    /\ workers = <<>>
    /\ plays = <<>>
    /\ searching = 0
    /\ closed = FALSE
    /\ status_label = "waiting"
    /\ limit = Limit(MaxPapers, MaxLists, MaxSessions, MaxPlays)

TranslatorIdle ==
    /\ cfg = [type |-> "google", baidu |-> FALSE, doubao |-> FALSE]
    /\ translator_type = "google"
    /\ google_translator = FALSE
    /\ call = NoCall

\* ArxivNewsApp.__init__, src/arxiv_news_app.py:230-238 and 336-337: the
\* state variables and the startup thread.
Init ==
    /\ gui = "idle"
    /\ AppIdle
    /\ auto = NewThread("search")
    /\ TranslatorIdle
    /\ srch = SearchIdle
    /\ OthersIdle

\* The playback session: the searches, play_latest_papers with its worker,
\* the play windows with their waits and speech threads, stop and close.  The
\* startup thread is still inside its search.
Next ==
    \/ check_new_papers
    \/ search_thread_done
    \/ search_thread_raise
    \/ reminder_search
    \/ play_latest_papers
    \/ \E w \in DOMAIN workers : pregenerate_start(w)
    \/ \E w \in DOMAIN workers : pregenerate_generate(w)
    \/ \E k \in DOMAIN plays : speech_check(k)
    \/ \E k \in DOMAIN plays : speech_fetch(k)
    \/ \E k \in DOMAIN plays : speech_generate(k)
    \/ \E k \in DOMAIN plays : audio_over(k)
    \/ \E k \in DOMAIN plays : audio_stopped(k)
    \/ \E k \in DOMAIN plays : next_paper(k)
    \/ \E k \in DOMAIN plays : \E n \in plays[k].waits : check_speech_status(k, n)
    \/ \E k \in DOMAIN plays : \E n \in plays[k].waits : cancel_wait(k, n)
    \/ stop_playback
    \/ \E k \in DOMAIN plays : stop_in_window(k)
    \/ on_close

Spec == Init /\ [][Next]_vars

\* Pregeneration: the startup thread, the searches, play_latest_papers with
\* its worker, and close.  The speech threads do not get to run.
NextStartup ==
    \/ auto_search
    \/ auto_generate
    \/ check_new_papers
    \/ search_thread_done
    \/ search_thread_raise
    \/ play_latest_papers
    \/ \E w \in DOMAIN workers : pregenerate_start(w)
    \/ \E w \in DOMAIN workers : pregenerate_generate(w)
    \/ on_close

SpecStartup == Init /\ [][NextStartup]_vars

\* Sessions over one list: a search has installed SessionPapers papers, the
\* startup thread is over, and play_latest_papers is pressed up to
\* RepeatedSessions times while the play windows of earlier sessions stay open.
InitSessions ==
    /\ gui = "idle"
    /\ current_papers = [id |-> 1, len |-> SessionPapers]
    /\ nextList = 2
    /\ current_paper_index = 0
    /\ is_playing = FALSE
    /\ pregenerated_speech = EmptyMap
    /\ speech_generating = {}
    /\ disk = {}
    /\ auto = NewThread("done")
    /\ workers = <<>>
    /\ plays = <<>>
    /\ searching = 0
    /\ closed = FALSE
    /\ status_label = "found"
    /\ limit = Limit(SessionPapers, 1, RepeatedSessions, SessionPlays)
    /\ TranslatorIdle
    /\ srch = SearchIdle
    /\ OthersIdle

NextSessions ==
    \/ play_latest_papers
    \/ \E w \in DOMAIN workers : pregenerate_start(w)
    \/ \E w \in DOMAIN workers : pregenerate_generate(w)
    \/ \E k \in DOMAIN plays : next_paper(k)
    \/ \E k \in DOMAIN plays : \E n \in plays[k].waits : check_speech_status(k, n)
    \/ \E k \in DOMAIN plays : \E n \in plays[k].waits : cancel_wait(k, n)
    \/ stop_playback
    \/ \E k \in DOMAIN plays : stop_in_window(k)

SpecSessions == InitSessions /\ [][NextSessions]_vars

\* The Translator of either program with the configuration it starts from
\* (CONFIG of src/arxiv_news_app.py:37-47 and of src/arxiv_collector.py:30-42).
InitTranslate ==
    /\ gui = "idle"
    /\ AppIdle
    /\ auto = NewThread("idle")
    /\ srch = SearchIdle
    /\ cfg \in {[type |-> t, baidu |-> FALSE, doubao |-> FALSE] : t \in {"google", "doubao"}}
    /\ translator_type = cfg.type
    /\ google_translator = FALSE
    /\ call = NoCall
    /\ OthersIdle

NextTranslate ==
    \/ TranslateApp
    \/ TranslateCollector
    \/ save_config

SpecTranslate == InitTranslate /\ [][NextTranslate]_vars

\* One run of search_papers for each value of the cap, of CONFIG["fields"] and
\* of the results the index client delivers.
InitSearch ==
    /\ gui = "idle"
    /\ AppIdle
    /\ auto = NewThread("idle")
    /\ TranslatorIdle
    /\ \E cap \in 1..MaxCap, fields \in FieldLists, raw \in SeqsUpTo(PaperCategories, MaxRaw) :
          srch = [pc |-> "loop", cap |-> cap, categories |-> build_categories(fields),
                  raw |-> raw, i |-> 1, results |-> <<>>]
    /\ OthersIdle

NextSearch == SearchStep

SpecSearch == InitSearch /\ [][NextSearch]_vars

\* The reminder thread from a start of the application on day FirstDay, at
\* midnight or inside the hour of a reminder that an earlier run has recorded
\* in last_reminder.txt, over MaxDays days.
InitReminder ==
    /\ gui = "idle"
    /\ AppIdle
    /\ auto = NewThread("idle")
    /\ TranslatorIdle
    /\ srch = SearchIdle
    /\ DriverIdle
    /\ BuildersIdle
    /\ reminder_enabled = TRUE
    /\ skip_today = FALSE
    /\ reminder = ReminderThread("poll", FALSE)
    /\ \/ /\ clock = [day |-> FirstDay, hour |-> 0]
          /\ last_reminder = NoStamp
       \/ /\ clock = [day |-> FirstDay, hour |-> reminder_start_time]
          /\ last_reminder \in {NoStamp, Stamp(clock)}
    /\ triggered = {last_reminder} \ {NoStamp}
    /\ polled = FALSE

NextReminder ==
    \/ clock_tick
    \/ toggle_reminder
    \/ reminder_poll
    \/ reminder_found
    \/ reminder_none
    \/ reminder_raise
    \/ reminder_skip_today
    \/ reminder_dismiss

SpecReminder == InitReminder /\ [][NextReminder]_vars

\* main of the collector from its start.
InitCollector ==
    /\ gui = "idle"
    /\ AppIdle
    /\ auto = NewThread("idle")
    /\ TranslatorIdle
    /\ srch = SearchIdle
    /\ ReminderIdle
    /\ BuildersIdle
    /\ driver = Driver("search", 0, 0, 0, 0, "none")
    /\ speech = NoSpeech
    /\ log = <<>>

NextCollector ==
    \/ main_search
    \/ process_summarize
    \/ process_save
    \/ process_speech
    \/ process_play
    \/ process_pause
    \/ no_papers_speech
    \/ no_papers_play
    \/ main_sleep
    \/ main_cooldown

SpecCollector == InitCollector /\ [][NextCollector]_vars

\* One call of build_query for each keyword list, and one call of
\* build_categories for each list of subject-area tokens.
InitQuery ==
    /\ gui = "idle"
    /\ AppIdle
    /\ auto = NewThread("idle")
    /\ TranslatorIdle
    /\ srch = SearchIdle
    /\ ReminderIdle
    /\ DriverIdle
    /\ sb = Cleaner("idle", <<>>, <<>>, <<>>, "idle")
    /\ \/ \E keywords \in KeywordLists : qb = Builder("build_query", keywords, <<>>, "call")
       \/ \E fields \in SeqsUpTo(FieldTokens, MaxFields) :
             qb = Builder("build_categories", fields, <<>>, "call")

NextQuery ==
    \/ call_build_query
    \/ call_build_categories

SpecQuery == InitQuery /\ [][NextQuery]_vars

\* One cleanup of each text on each path that builds a spoken summary, and
\* the cleanup of its output.
InitSummary ==
    /\ gui = "idle"
    /\ AppIdle
    /\ auto = NewThread("idle")
    /\ TranslatorIdle
    /\ srch = SearchIdle
    /\ ReminderIdle
    /\ DriverIdle
    /\ qb = Builder("idle", <<>>, <<>>, "idle")
    /\ \E path \in SummaryPaths, text \in SummaryTexts :
          sb = Cleaner(path, text, <<>>, <<>>, "start")

NextSummary ==
    \/ summarize_paper
    \/ auto_cleanup
    \/ pregenerate_cleanup
    \/ speech_thread_cleanup
    \/ cleanup_again

SpecSummary == InitSummary /\ [][NextSummary]_vars

\* The order of the work: process_papers of the collector, and beside it the
\* worker of one play_latest_papers over a list of SessionPapers papers.
InitOrder ==
    /\ gui = "idle"
    /\ current_papers = [id |-> 1, len |-> SessionPapers]
    /\ nextList = 2
    /\ current_paper_index = 0
    /\ is_playing = FALSE
    /\ pregenerated_speech = EmptyMap
    /\ speech_generating = {}
    /\ disk = {}
    /\ auto = NewThread("done")
    /\ workers = <<>>
    /\ plays = <<>>
    /\ searching = 0
    /\ closed = FALSE
    /\ status_label = "found"
    /\ limit = Limit(SessionPapers, 1, 1, 1)
    /\ TranslatorIdle
    /\ srch = SearchIdle
    /\ ReminderIdle
    /\ BuildersIdle
    /\ driver = Driver("search", 0, 0, 0, 0, "none")
    /\ speech = NoSpeech
    /\ log = <<>>

NextOrder ==
    \/ main_search
    \/ process_summarize
    \/ process_save
    \/ process_speech
    \/ process_play
    \/ process_pause
    \/ no_papers_speech
    \/ no_papers_play
    \/ main_sleep
    \/ main_cooldown
    \/ play_latest_papers
    \/ \E w \in DOMAIN workers : pregenerate_start(w)
    \/ \E w \in DOMAIN workers : pregenerate_generate(w)

SpecOrder == InitOrder /\ [][NextOrder]_vars

\* A playback session over a list of SessionPapers papers while the reminder
\* thread's searches replace self.current_papers, with play_next_paper in
\* its two reads of the list.
InitIndex ==
    /\ gui = "idle"
    /\ current_papers = [id |-> 1, len |-> SessionPapers]
    /\ nextList = 2
    /\ current_paper_index = 0
    /\ is_playing = FALSE
    /\ pregenerated_speech = EmptyMap
    /\ speech_generating = {}
    /\ disk = {}
    /\ auto = NewThread("done")
    /\ workers = <<>>
    /\ plays = <<>>
    /\ searching = 0
    /\ closed = FALSE
    /\ status_label = "found"
    /\ limit = Limit(SessionPapers, MaxLists + 1, 1, SessionPlays)
    /\ TranslatorIdle
    /\ srch = SearchIdle
    /\ OthersIdle

NextIndex ==
    \/ gui = "idle" /\ play_latest_papers
    \/ \E w \in DOMAIN workers : pregenerate_start(w)
    \/ \E w \in DOMAIN workers : pregenerate_generate(w)
    \/ \E k \in DOMAIN plays : next_paper_until_test(k)
    \/ play_next_paper_index
    \/ reminder_search

SpecIndex == InitIndex /\ [][NextIndex]_vars

(***************************************************************************)
(* Properties of the Translator (SpecTranslate).                           *)
(***************************************************************************)
Called == call.variant # "none"
Attempted == Range(call.tried)
\* Backend b was attempted and gave no translation: its keys are missing, no
\* googletrans instance could be made, the response was malformed, or it raised.
Failed(b) == call.results[b] \in {"no_creds", "no_init", "malformed", "exception"}
\* Backend b was attempted and what it handed back was not a translation.
Unchanged(b) == b \in Attempted /\ call.results[b] # "ok"

\* C1: translate is total.  Whatever the type, the credentials and the
\* behaviour of the backends, a call returns a string and does not raise, and
\* when every backend it attempted failed the string is the input text.
TranslateTotal ==
    Called =>
        /\ ~call.raised
        /\ call.value \in Strings
        /\ (\A b \in Attempted : Failed(b)) => call.value = Text(call.text)

\* C1, the case: a call of the GUI's translator in which the googletrans
\* request raised: the only backend attempted failed, and the input came back.
TranslateTotalWitness ==
    /\ call.variant = "app"
    /\ call.tried = <<"google">>
    /\ call.results["google"] = "exception"
    /\ call.value = Text(call.text)

\* C8: the fallback chain.  When the backend tried first hands back the input,
\* a further backend is tried, and the input text is the result only after
\* every backend of the program has been tried.
ChainOf(variant) == IF variant = "collector" THEN {"doubao", "google"} ELSE Backends
FallbackChain ==
    Called =>
        /\ Unchanged(call.tried[1]) => Len(call.tried) >= 2
        /\ call.value = Text(call.text) => Attempted = ChainOf(call.variant)

(***************************************************************************)
(* Properties of search_papers (SpecSearch).                               *)
(***************************************************************************)
\* C7: search_papers returns at most CONFIG["max_results"] papers, and each
\* of them carries a category of the expanded list.  The result list obeys
\* both while the loop runs and when it is returned.
SearchWithinCap ==
    /\ Len(srch.results) <= srch.cap
    /\ \A i \in DOMAIN srch.results : CategoryMatch(srch.categories, srch.results[i])

\* C7, the case: the loop has ended on the break with the cap reached, raw
\* results are left over, and a raw result was filtered out on the way.
SearchWithinCapWitness ==
    /\ srch.pc = "done"
    /\ Len(srch.results) = srch.cap
    /\ srch.i <= Len(srch.raw)
    /\ srch.i - 1 > Len(srch.results)

(***************************************************************************)
(* Properties of the sessions (Spec, SpecStartup, SpecSessions).           *)
(***************************************************************************)
\* Play window k is open and holds a wait for position n.
Waiting(k, n) == plays[k].win /\ n \in plays[k].waits

\* C2: the advance waits on the generation flag.  While the Next button has
\* been pressed for N = current_paper_index + 1, the wait it opened is still
\* there and the flag of N is set, no step moves current_paper_index on to N.
AdvanceWaitsOnFlag ==
    [][\A k \in DOMAIN plays :
          LET N == current_paper_index + 1
          IN  Waiting(k, N) /\ N \in speech_generating
                  => current_paper_index' # N]_vars

\* C3: while the application is open, every path stored in
\* pregenerated_speech names a file that exists.
PregeneratedFilesExist ==
    ~closed => \A f \in Files(pregenerated_speech) : f \in disk

\* C4: once a speech_thread has played a pregenerated file, the file is
\* deleted and no entry of pregenerated_speech holds its path.
PlayedEntryConsumed ==
    \A k \in DOMAIN plays :
        plays[k].pc = "played" /\ ~Sync(k)
            => plays[k].path \notin disk /\ plays[k].path \notin Files(pregenerated_speech)

\* C5: a step that replaces current_papers leaves pregenerated_speech empty.
SearchInvalidatesEntries ==
    [][current_papers' # current_papers => pregenerated_speech' = EmptyMap]_vars

Generating(t, n) == t.pc = "generate" /\ t.i = n
FlagsCleared ==
    \A n \in speech_generating :
        Generating(auto, n) \/ \E w \in DOMAIN workers : Generating(workers[w], n)

\* C10: is_playing cancels the waits.  After stop_playback has set is_playing
\* to false, no pending wait moves on to the next paper.
StopCancelsWaits ==
    [][\A k \in DOMAIN plays : \A n \in plays[k].waits :
          ~is_playing => ~check_speech_status(k, n)]_vars

\* C11: no double write.  A position of pregenerated_speech that holds a path
\* is not written again: between two resets of the map each position is
\* written by one pregeneration thread only, so every file that was written
\* stays reachable through the map for the one consumer that deletes it.
NoDoubleWrite ==
    [][\A p \in DOMAIN pregenerated_speech :
          p \in DOMAIN pregenerated_speech'
              => pregenerated_speech'[p] = pregenerated_speech[p]]_vars

\* C15: a manual check whose search raises.  The step in which a
\* search_thread ends without a new list leaves current_papers,
\* current_paper_index, pregenerated_speech and speech_generating as they
\* were, and the status line does not announce a result.
FailedSearchKeepsState ==
    [][searching' < searching /\ nextList' = nextList
          => UNCHANGED <<current_papers, current_paper_index, pregenerated_speech,
                         speech_generating, status_label>>]_vars

\* C15, the case: a check was started over a list with a pregenerated entry,
\* its search has failed, and the list and the entry are still there.
FailedSearchKeepsStateWitness ==
    /\ status_label = "checking"
    /\ searching = 0
    /\ current_papers.len > 0
    /\ pregenerated_speech # EmptyMap

(***************************************************************************)
(* Properties of the reminder thread (SpecReminder).                       *)
(***************************************************************************)
\* The step is an iteration of reminder_loop that starts a search.
Triggers == reminder.pc = "poll" /\ reminder'.pc = "search"

\* C12: at most one reminder search per calendar hour.  An iteration starts a
\* search only in an hour (a date and an hour of it) in which no search was
\* started before, neither by this run nor, as far as last_reminder.txt
\* records it, by the run before it.
TriggerOncePerHour ==
    [][Triggers => Stamp(clock) \notin triggered]_vars

\* C12, the case: a search of this run was triggered in the present hour and
\* found papers, and the thread polls again in that hour with every other
\* condition of a trigger met.
TriggerOncePerHourWitness ==
    /\ reminder.pc = "poll"
    /\ nextList > 1
    /\ Stamp(clock) \in triggered
    /\ ReachesFile(clock)

\* Reminders are on, today is not skipped, the day is Monday to Friday and the
\* hour is inside the reminder window.
Eligible(now) ==
    /\ reminder_enabled
    /\ ~skip_today
    /\ weekday(now) \in 0..4
    /\ reminder_start_time <= now.hour
    /\ now.hour < reminder_end_time

\* C13: a search is triggered only at an eligible tick.  While the thread is
\* polling and the tick is not eligible, no step starts a search, changes
\* current_papers or changes last_reminder.txt.
TriggerOnlyWhenEligible ==
    [][reminder.pc = "poll" /\ ~Eligible(clock)
          => /\ ~Triggers
             /\ UNCHANGED <<current_papers, last_reminder>>]_vars

\* C13, the case: the thread has triggered a search on a working day and is
\* polling on a day of the weekend.
TriggerOnlyWhenEligibleWitness ==
    /\ reminder.pc = "poll"
    /\ triggered # {}
    /\ weekday(clock) >= 5
    /\ reminder_enabled
    /\ ~skip_today

\* C16: a failure of the search that the reminder thread triggered does not
\* stop the loop: no step takes the thread from its search to its end.
ReminderSearchFailureRetried ==
    [][reminder.pc = "search" => reminder'.pc # "dead"]_vars

(***************************************************************************)
(* Properties of the collector's driver (SpecCollector).                   *)
(***************************************************************************)
\* C14: main catches every exception of an iteration.  A step that raises,
\* in search_papers or in any later step of the iteration, takes the driver
\* to the cooldown; after the cooldown it runs the search again; main never
\* ends.
MainCatchesAndRetries ==
    [][/\ driver'.pc # "terminated"
       /\ driver'.errors > driver.errors => driver'.pc = "cooldown"
       /\ driver.pc = "cooldown" => driver'.pc = "search"]_vars

\* C14, the case: text_to_speech raised for the second paper of an iteration,
\* the cooldown is over and the driver is at its search again.
MainCatchesAndRetriesWitness ==
    /\ driver.pc = "search"
    /\ driver.raised_at = "speech"
    /\ driver.i = 2

(***************************************************************************)
(* Properties of build_query and build_categories (SpecQuery).             *)
(***************************************************************************)
\* Where the i-th fragment starts in the query of the keyword list K: before
\* it stand the earlier keywords, each with its two quotes and a separator.
RECURSIVE Offset(_, _)
Offset(K, i) == IF i = 1 THEN 0 ELSE Offset(K, i - 1) + Len(K[i - 1]) + 6

\* C17: the query of a keyword list K is len(K) fragments joined by " OR ",
\* the i-th fragment being K[i] between two double quotes, and the query of
\* the empty list is the empty string.
QueryOfQuotedFragments ==
    qb.fn = "build_query" /\ qb.pc = "done" =>
        LET K == qb.arg
            q == qb.out
        IN  /\ K = <<>> => q = <<>>
            /\ K # <<>> => Len(q) = Offset(K, Len(K)) + Len(K[Len(K)]) + 2
            /\ \A i \in DOMAIN K :
                  SubSeq(q, Offset(K, i) + 1, Offset(K, i) + Len(K[i]) + 2)
                      = <<"\"">> \o K[i] \o <<"\"">>
            /\ \A i \in 1..(Len(K) - 1) :
                  SubSeq(q, Offset(K, i) + Len(K[i]) + 3, Offset(K, i) + Len(K[i]) + 6)
                      = <<" ", "O", "R", " ">>

\* C17, the case: the query of three keywords, one of them empty and one with
\* a double quote in it.
QueryOfQuotedFragmentsWitness ==
    /\ qb.fn = "build_query"
    /\ qb.pc = "done"
    /\ Len(qb.arg) = 3
    /\ <<>> \in Range(qb.arg)
    /\ \E i \in DOMAIN qb.arg : "\"" \in Range(qb.arg[i])

Count(s, x) == Cardinality({i \in DOMAIN s : s[i] = x})
Umbrellas == DOMAIN category_map
Built == qb.fn = "build_categories" /\ qb.pc = "done"

\* Every sub-category registered for an umbrella token of the input is in the output.
ExpansionsIncluded ==
    \A i \in DOMAIN qb.arg :
        qb.arg[i] \in Umbrellas => Range(category_map[qb.arg[i]]) \subseteq Range(qb.out)

\* How often the umbrella tokens of the input bring token t into the output.
FromExpansions(t) ==
    Cardinality({ij \in (DOMAIN qb.arg) \X (1..Len(physics_subcategories)) :
                    /\ qb.arg[ij[1]] \in Umbrellas
                    /\ ij[2] \in DOMAIN category_map[qb.arg[ij[1]]]
                    /\ category_map[qb.arg[ij[1]]][ij[2]] = t})

\* C18 as stated: the output holds the sub-categories of every umbrella token
\* of the input, and every unrecognized token of the input exactly once.
UnrecognizedExactlyOnce ==
    Built =>
        /\ ExpansionsIncluded
        /\ \A t \in Range(qb.arg) \ Umbrellas : Count(qb.out, t) = 1

\* C18, amended: the output holds the sub-categories of every umbrella token
\* of the input, and every unrecognized token as often as the input holds it,
\* plus once for every umbrella token of the input it is registered under.
UnrecognizedAsOftenAsGiven ==
    Built =>
        /\ ExpansionsIncluded
        /\ \A t \in Range(qb.arg) \ Umbrellas :
              Count(qb.out, t) = Count(qb.arg, t) + FromExpansions(t)

\* C18, the case: an umbrella token, one of its own sub-categories and a
\* token given twice.
UnrecognizedAsOftenAsGivenWitness ==
    /\ Built
    /\ Count(qb.arg, "gr-qc") = 2
    /\ Count(qb.out, "gr-qc") = 2
    /\ "astro-ph" \in Range(qb.arg)

(***************************************************************************)
(* Properties of the cleanup (SpecSummary).                                *)
(***************************************************************************)
\* No two dollar signs of the text stand on one line.
NoInlineMath(text) ==
    ~ \E i, j \in DOMAIN text :
          /\ i < j
          /\ text[i] = "$"
          /\ text[j] = "$"
          /\ \A k \in (i + 1)..(j - 1) : text[k] # "nl"

\* No white space follows white space.
Collapsed(text) ==
    \A i \in 1..(Len(text) - 1) : ~(text[i] \in Whitespace /\ text[i + 1] \in Whitespace)

\* C19: on every path that builds a spoken summary the cleaned text has no
\* inline math left and no run of white space, and "Title with $x^2$ math"
\* becomes "Title with math".
CleanedOnEveryPath ==
    sb.pc = "done" =>
        /\ NoInlineMath(sb.out)
        /\ Collapsed(sb.out)
        /\ sb.text = TitleWithMath => sb.out = <<"w", "sp", "w", "sp", "w">>

\* The text has no math span (fewer than two dollar signs) and no command.
CleanText(text) == Count(text, "$") < 2 /\ "cmd{" \notin Range(text)

\* C20: on a text without markup the cleanup of summarize_paper, applied to
\* its own output, gives that output back.
CleanupIdempotent ==
    sb.pc = "twice" /\ sb.path = "summarize_paper" /\ CleanText(sb.text)
        => sb.again = sb.out

\* C20, the case: a text without markup that the cleanup changes (a run of
\* three blanks between two words), cleaned twice.
CleanupIdempotentWitness ==
    /\ sb.pc = "twice"
    /\ sb.path = "summarize_paper"
    /\ sb.text = WideGap
    /\ sb.out = <<"w", "sp", "w">>

(***************************************************************************)
(* Further properties of the Translator (SpecTranslate).                   *)
(***************************************************************************)
\* C21: nothing is cached.  A call of the GUI's translate runs with the
\* backend selector that CONFIG holds at the time of the call.
TranslateReadsConfig ==
    [][call' # call /\ call'.variant = "app" => call'.type = cfg.type]_vars

(***************************************************************************)
(* Further properties of the collector (SpecCollector).                    *)
(***************************************************************************)
\* C22: text_to_speech writes the audio file and returns, or raises.  A call
\* that returns has produced the file, a call that produced none has raised,
\* and when edge-tts is not installed gTTS has been tried.
SpeechWrittenOrRaised ==
    speech.called =>
        /\ speech.raised # speech.file
        /\ speech.edge = "missing" => speech.tried = <<"edge-tts", "gtts">>

\* C22, the case: edge-tts is not installed, gTTS wrote the file of a paper,
\* and the driver goes on to play it.
SpeechWrittenOrRaisedWitness ==
    /\ speech.called
    /\ speech.edge = "missing"
    /\ speech.file
    /\ driver.pc = "play"

(***************************************************************************)
(* Further properties of the GUI (SpecStartup, Spec, SpecSessions).        *)
(***************************************************************************)
\* The process is over: the window was closed and no thread that keeps the
\* process alive (the workers and the search threads are not daemons) runs.
Exited ==
    /\ closed
    /\ searching = 0
    /\ \A w \in DOMAIN workers : workers[w].pc \in {"done", "dead"}

\* A file written by the startup thread or by a pregeneration worker.
Pregenerated(f) == f[1] \in {0, 1}

\* C23: exit deletes the pregenerated files.  Once the process has exited
\* through on_close, no pregenerated audio file is on disk.
ExitLeavesNoFile ==
    Exited => \A f \in disk : ~Pregenerated(f)

\* The steps of process_papers that have returned for position i in this iteration.
Completed(i) == {log[a][1] : a \in {b \in DOMAIN log : log[b][2] = i}}

\* While a paper is being summarized, the summary, the speech and the
\* playback of every paper before it are complete.
EarlierPapersComplete ==
    driver.pc = "summarize" =>
        \A i \in 1..(driver.i - 1) : {"summarize", "speech", "play"} \subseteq Completed(i)

\* A worker that generates is at position 1 or later.
WorkerSkipsFirst ==
    \A w \in DOMAIN workers : workers[w].pc = "generate" => workers[w].i >= 1

\* C24: search-result order.  process_papers summarizes a paper only when
\* summary, speech and playback of all papers before it are complete; a
\* pregeneration worker starts at position 1, never generates position 0 and
\* goes from a position to a later one only.
ProcessedInOrder ==
    [][/\ EarlierPapersComplete'
       /\ WorkerSkipsFirst'
       /\ \A w \in DOMAIN workers :
             workers[w].pc = "generate" /\ workers'[w].pc = "generate"
                 => workers'[w].i >= workers[w].i]_vars

(***************************************************************************)
(* Further properties of the reminder thread (SpecReminder).               *)
(***************************************************************************)
\* C25: skip-today clears itself.  An iteration of reminder_loop that runs
\* with skip_today set at an hour that has reached reminder_end_time leaves
\* skip_today cleared.
SkipClearedAtEnd ==
    [][~polled /\ polled' /\ skip_today /\ clock.hour >= reminder_end_time
          => ~skip_today']_vars

(***************************************************************************)
(* Further properties of playback and pregeneration (Spec, SpecStartup).   *)
(***************************************************************************)
\* The speech threads that are inside play_audio_file, in its poll loop.
Playing == {k \in DOMAIN plays : plays[k].pc = "playing"}

\* C26: at most one speech thread is playing audio at any time.
OnePlaybackAtATime == Cardinality(Playing) <= 1

\* C27: the audio a speech thread plays is the summary of the paper shown in
\* its play window: the file was synthesized for the same position of the
\* same paper list.
PlaysOwnPaper == \A k \in Playing : Content(plays[k].path) = plays[k].paper

\* C28: speech_generating[i] is set for as long as any pregeneration thread
\* is generating the audio of position i.
FlagWhileGenerating ==
    /\ \A w \in DOMAIN workers :
          workers[w].pc = "generate" => workers[w].i \in speech_generating
    /\ auto.pc = "generate" => auto.i \in speech_generating

\* C29: when play_next_paper indexes self.current_papers, the index is a
\* valid position of the list as it is at that moment.
IndexValidWhenIndexing ==
    gui = "tested" => current_paper_index < current_papers.len

\* C30: no temporary audio file is orphaned.  Every file on disk is referenced
\* by pregenerated_speech, or is the file a speech thread generated for
\* itself and is still playing (it unlinks the file after playback).
NoOrphanedFile ==
    \A f \in disk :
        \/ f \in Files(pregenerated_speech)
        \/ \E k \in Playing : plays[k].path = f

====
